---------------------------- MODULE Spec2Model ----------------------------
(***************************************************************************)
(* Boerenbridge (src/boerenbridge.py): a deck, four hands and a trick that *)
(* exchange cards, the playability rule, the three-key trick sort, the    *)
(* score step and the round loop of Game.run.                             *)
(*                                                                         *)
(* The deck is scaled: NumRanks ranks per suit instead of 13, so that the  *)
(* game has 4*NumRanks cards and 2*NumRanks rounds; random.shuffle yields   *)
(* one of NumShuffles arrangements of the cards it is given.               *)
(***************************************************************************)
EXTENDS Integers, Sequences, FiniteSets

(* ------------------------------ bounds -------------------------------- *)

\* ranks per suit (13 in the source: range(2, 15) and range(1, 14))
NumRanks ==
    2

\* outcomes of one random.shuffle call that are explored
NumShuffles ==
    2

\* longest hand given to playable_cards on its own
MaxHand ==
    3

\* longest source container given to move_cards on its own
MaxSrc ==
    3

\* largest tricks_won / bids given to Score.adjust on its own
MaxTricks ==
    5

(* ------------------------------ constants ----------------------------- *)

nop ==
    4

\* Python's None, for a suit, a label or an index
None ==
    -1

Suits ==
    0 .. 3

Ranks ==
    2 .. (NumRanks + 1)

Players ==
    0 .. (nop - 1)

Cards ==
    [suit : Suits, rank : Ranks]

\* the value of played_card before any card was played
NoCard ==
    [suit |-> None, rank |-> 0]

\* Game.noc built from range(2, 15) and range(14, 1, -1)
noc_from_two ==
    [k \in 1 .. (2 * NumRanks) |-> IF k <= NumRanks THEN k + 1 ELSE 2 * NumRanks + 2 - k]

\* Game.noc: 1..13 followed by 13..1
noc ==
    [k \in 1 .. (2 * NumRanks) |-> IF k <= NumRanks THEN k ELSE 2 * NumRanks + 1 - k]

\* Deck.__init__: suits outermost, ranks ascending
NewDeck ==
    [k \in 1 .. (4 * NumRanks) |->
        [suit |-> (k - 1) \div NumRanks, rank |-> 2 + ((k - 1) % NumRanks)]]

(* ------------------------------ Card ---------------------------------- *)

\* Card.__lt__: the tuples (rank, suit) compared
CardLt(a, b) ==
    \/ a.rank < b.rank
    \/ a.rank = b.rank /\ a.suit < b.suit

has_lead_suit(card, lead) ==
    card.suit = lead

is_trump(card, trump) ==
    card.suit = trump

\* a Python bool used as a sort key: False < True
BoolKey(b) ==
    IF b THEN 1 ELSE 0

(* --------------------------- list primitives --------------------------- *)

Range(s) ==
    {s[k] : k \in 1 .. Len(s)}

RemoveAt(s, k) ==
    SubSeq(s, 1, k - 1) \o SubSeq(s, k + 1, Len(s))

\* the 1-based position a Python index i names in a list of length n, 0 if none
PyIndex(i, n) ==
    IF i >= 0 /\ i < n THEN i + 1
    ELSE IF i < 0 /\ i >= 0 - n THEN n + i + 1
    ELSE 0

\* list.index(card) as a Python index, None if the card is absent (ValueError)
IndexOf(s, card) ==
    IF \E k \in 1 .. Len(s) : s[k] = card
    THEN (CHOOSE k \in 1 .. Len(s) : s[k] = card /\ \A j \in 1 .. (k - 1) : s[j] # card) - 1
    ELSE None

\* list.sort is stable: each element goes before the first one it is less than
RECURSIVE InsertSorted(_, _, _)
InsertSorted(x, s, lt) ==
    IF s = <<>> THEN <<x>>
    ELSE IF lt[x, Head(s)] THEN <<x>> \o s
    ELSE <<Head(s)>> \o InsertSorted(x, Tail(s), lt)

\* the front, its sorted form and the last element are bound to names, so that
\* each is computed once
RECURSIVE StableSort(_, _)
StableSort(s, lt) ==
    IF s = <<>> THEN <<>>
    ELSE CHOOSE sorted \in
            {InsertSorted(last, front, lt) :
                last \in {s[Len(s)]},
                front \in {StableSort(init, lt) : init \in {SubSeq(s, 1, Len(s) - 1)}}} : TRUE

(* ------------------------------ Deck ---------------------------------- *)

\* Deck.sort: by Card.__lt__
DeckSort(cards) ==
    StableSort(cards, [a \in Cards, b \in Cards |-> CardLt(a, b)])

\* move_cards with the card copied instead of popped
RECURSIVE move_cards_copy(_, _, _, _)
move_cards_copy(src, dst, num, i) ==
    IF num <= 0 THEN [src |-> src, dst |-> dst, err |-> "none"]
    ELSE IF PyIndex(i, Len(src)) = 0 THEN [src |-> src, dst |-> dst, err |-> "IndexError"]
    ELSE move_cards_copy(src, Append(dst, src[PyIndex(i, Len(src))]), num - 1, i)

\* move_cards taking the cards as one slice, which keeps their order
move_cards_slice(src, dst, num, i) ==
    IF num <= 0 THEN [src |-> src, dst |-> dst, err |-> "none"]
    ELSE IF num > Len(src) THEN [src |-> src, dst |-> dst, err |-> "IndexError"]
    ELSE IF i = -1
    THEN [src |-> SubSeq(src, 1, Len(src) - num),
          dst |-> dst \o SubSeq(src, Len(src) - num + 1, Len(src)),
          err |-> "none"]
    ELSE [src |-> RemoveAt(src, PyIndex(i, Len(src))),
          dst |-> Append(dst, src[PyIndex(i, Len(src))]),
          err |-> "none"]

\* Deck.move_cards: num times, pop index i of src and append it to dst.
\* The result holds both lists and the exception that ended the loop, if any.
\* The two lists after one pass are bound to names, so that they are computed once.
RECURSIVE move_cards(_, _, _, _)
move_cards(src, dst, num, i) ==
    IF num <= 0 THEN [src |-> src, dst |-> dst, err |-> "none"]
    ELSE IF PyIndex(i, Len(src)) = 0 THEN [src |-> src, dst |-> dst, err |-> "IndexError"]
    ELSE CHOOSE moved \in
            {move_cards(rest, more, num - 1, i) :
                rest \in {RemoveAt(src, PyIndex(i, Len(src)))},
                more \in {Append(dst, src[PyIndex(i, Len(src))])}} : TRUE

\* Deck.move_specific_card: index() raises before anything is moved
move_specific_card(src, dst, card) ==
    IF IndexOf(src, card) = None THEN [src |-> src, dst |-> dst, err |-> "ValueError"]
    ELSE move_cards(src, dst, 1, IndexOf(src, card))

\* random.shuffle: its result does not depend on the order before it. Outcome k
\* is the cards in the order of a new deck (by suit, then rank), riffled once
\* and cut at k.
NewDeckOrder(cards) ==
    StableSort(cards,
        [a \in Cards, b \in Cards |->
            a.suit < b.suit \/ (a.suit = b.suit /\ a.rank < b.rank)])

Riffle(cards) ==
    [k \in 1 .. Len(cards) |->
        IF k % 2 = 1 THEN cards[(k + 1) \div 2]
        ELSE cards[((Len(cards) + 1) \div 2) + (k \div 2)]]

Cut(cards, k) ==
    IF cards = <<>> THEN cards
    ELSE SubSeq(cards, (k % Len(cards)) + 1, Len(cards)) \o SubSeq(cards, 1, k % Len(cards))

shuffle(cards) ==
    {Cut(riffled, k) :
        k \in 1 .. NumShuffles,
        riffled \in {Riffle(ordered) : ordered \in {NewDeckOrder(cards)}}}

(* ------------------------------ Hand ---------------------------------- *)

\* filter_suit with the comparison inverted: the cards of every other suit
filter_suit_other(cards, suit) ==
    SelectSeq(cards, LAMBDA card : card.suit # suit)

\* Hand.filter_suit
filter_suit(cards, suit) ==
    SelectSeq(cards, LAMBDA card : card.suit = suit)

\* playable_cards without the trump cards beside the lead cards
playable_cards_no_trump(cards, lead, trump) ==
    IF filter_suit(cards, lead) # <<>>
    THEN filter_suit(cards, lead)
    ELSE cards

\* Hand.playable_cards
playable_cards(cards, lead, trump) ==
    IF filter_suit(cards, lead) # <<>>
    THEN IF filter_suit(cards, trump) # <<>> /\ lead # trump
         THEN filter_suit(cards, lead) \o filter_suit(cards, trump)
         ELSE filter_suit(cards, lead)
    ELSE cards

\* Hand.unplayable_cards: a list of a set difference, its order unspecified
unplayable_cards(cards, playable_list) ==
    Range(cards) \ Range(playable_list)

(* ------------------------------ Trick --------------------------------- *)

\* Trick.sort without its last pass
TrickSortNoTrump(cards, lead, trump) ==
    StableSort(DeckSort(cards),
        [a \in Cards, b \in Cards |->
            BoolKey(has_lead_suit(a, lead)) < BoolKey(has_lead_suit(b, lead))])

\* Trick.sort without its middle pass
TrickSortNoLead(cards, lead, trump) ==
    StableSort(DeckSort(cards),
        [a \in Cards, b \in Cards |->
            BoolKey(is_trump(a, trump)) < BoolKey(is_trump(b, trump))])

\* Trick.sort: three stable sorts, the last key the most significant. Each pass
\* is bound to a name, so that the next pass reads its result, not its formula.
TrickSort(cards, lead, trump) ==
    CHOOSE by_trump \in
        {StableSort(by_lead,
                [a \in Cards, b \in Cards |->
                    BoolKey(is_trump(a, trump)) < BoolKey(is_trump(b, trump))]) :
            by_lead \in
                {StableSort(by_card,
                        [a \in Cards, b \in Cards |->
                            BoolKey(has_lead_suit(a, lead)) < BoolKey(has_lead_suit(b, lead))]) :
                    by_card \in {DeckSort(cards)}}} : TRUE

(* ------------------------------ Score --------------------------------- *)

Abs(n) ==
    IF n < 0 THEN 0 - n ELSE n

\* adjust without abs()
adjust_no_abs(old, won, bid) ==
    IF won = bid THEN old + (won * 2 + 5)
    ELSE old - (won - bid) * 2

\* the body of the loop of Score.adjust, for one player
adjust(old, won, bid) ==
    IF won = bid THEN old + (won * 2 + 5)
    ELSE old - Abs(won - bid) * 2

(* ------------------------------ Game ---------------------------------- *)

\* next_player returning the player it was given
next_player_same(lbl) ==
    IF lbl = None \/ PyIndex(lbl, nop) = 0 THEN None
    ELSE PyIndex(lbl, nop) - 1

\* next_player indexing players[label - 1]: the player before
next_player_back(lbl) ==
    IF lbl = None \/ PyIndex(lbl - 1, nop) = 0 THEN None
    ELSE PyIndex(lbl - 1, nop) - 1

\* Game.next_player: players[label - (nop - 1)], an index that may be negative
next_player(lbl) ==
    IF lbl = None \/ PyIndex(lbl - (nop - 1), nop) = 0 THEN None
    ELSE PyIndex(lbl - (nop - 1), nop) - 1

VARIABLES
    deck,         \* Game.deck.cards
    hand,         \* Player.hand.cards, by player
    playable,     \* Hand.playable, by player
    unplayable,   \* Hand.unplayable, by player (as a set)
    leads,        \* Hand.leads, by player
    trumps,       \* Hand.trumps, by player
    trick,        \* Game.trick.cards
    lead_suit,    \* Trick.lead_suit
    trump_suit,   \* Trick.trump_suit
    trick_label,  \* Trick.label: whose turn it is
    card_label,   \* Card.label, set by Player.start, by card
    played_card,  \* Player.played_card
    tricks_won,   \* Player.tricks_won
    bids,         \* Player.bids
    score,        \* Player.score
    round,        \* Game.round
    label,        \* Game.label
    deal_next,    \* the player deal_hands serves next
    pc,           \* where the program is
    err,          \* the exception that ended the program or the call, if any
    arg,          \* arguments of a call made on its own
    ret           \* result of a call made on its own

hands ==
    <<hand, playable, unplayable, leads, trumps>>

players ==
    <<played_card, tricks_won, bids, score>>

tricks ==
    <<trick, lead_suit, trump_suit, trick_label, card_label>>

vars ==
    <<deck, hand, playable, unplayable, leads, trumps, trick, lead_suit, trump_suit,
      trick_label, card_label, played_card, tricks_won, bids, score, round, label,
      deal_next, pc, err, arg, ret>>

NoArg ==
    [op |-> "run", num |-> 0, card |-> NoCard]

\* Hand.__init__, for every player
NewHands ==
    /\ hand = [p \in Players |-> <<>>]
    /\ playable = [p \in Players |-> <<>>]
    /\ unplayable = [p \in Players |-> {}]
    /\ leads = [p \in Players |-> <<>>]
    /\ trumps = [p \in Players |-> <<>>]

\* Player.__init__, for every player
NewPlayers ==
    /\ played_card = [p \in Players |-> NoCard]
    /\ tricks_won = [p \in Players |-> 0]
    /\ bids = [p \in Players |-> 0]
    /\ score = [p \in Players |-> 0]

\* Trick.__init__; no card has a label yet
NewTrick ==
    /\ trick = <<>>
    /\ lead_suit = None
    /\ trump_suit = None
    /\ trick_label = None
    /\ card_label = [c \in Cards |-> None]

\* Game.__init__ before it calls dealer()
NewGame ==
    /\ round = 1
    /\ label = None
    /\ deal_next = 0

NoCall ==
    /\ err = "none"
    /\ arg = NoArg
    /\ ret = NoCard

\* the fields as the constructors of Deck, Hand, Trick, Player and Game leave them,
\* before Game.__init__ calls dealer()
Construct ==
    /\ deck = NewDeck
    /\ NewHands
    /\ NewPlayers
    /\ NewTrick
    /\ NewGame
    /\ NoCall

Init ==
    /\ Construct
    /\ pc = "dealer"

\* an exception leaves the program
Raise(e) ==
    /\ pc' = "error"
    /\ err' = e

\* Game.dealer, first half: shuffle and give the trick nop cards
DealerDraw ==
    /\ pc = "dealer"
    /\ \E d \in shuffle(deck) :
        LET m == move_cards(d, trick, nop, -1) IN
        /\ deck' = m.src
        /\ trick' = m.dst
        /\ IF m.err = "none" THEN pc' = "dealer_return" /\ err' = err ELSE Raise(m.err)
    /\ UNCHANGED <<hands, players, lead_suit, trump_suit, trick_label, card_label,
                   round, label, deal_next, arg, ret>>

\* Game.dealer, second half: rank the drawn cards, return them, keep the position
\* of the highest as Game.label
DealerReturn ==
    /\ pc = "dealer_return"
    /\ LET m == move_cards(trick, deck, nop, -1)
           best == CHOOSE k \in 1 .. Len(trick) :
                      \A j \in 1 .. Len(trick) : j # k => CardLt(trick[j], trick[k])
       IN
        /\ trick' = m.src
        /\ deck' = m.dst
        /\ label' = best - 1
        /\ IF m.err = "none" THEN pc' = "round" /\ err' = err ELSE Raise(m.err)
    /\ UNCHANGED <<hands, players, lead_suit, trump_suit, trick_label, card_label,
                   round, deal_next, arg, ret>>

\* Game.run leaving the lead of a new round to the winner of the last trick
StartRoundWinnerLeads ==
    /\ pc = "round"
    /\ round <= Len(noc)
    /\ label' = IF trick_label = None THEN next_player(label) ELSE trick_label
    /\ trick_label' = IF trick_label = None THEN next_player(label) ELSE trick_label
    /\ deck' \in shuffle(deck)
    /\ pc' = "pull_trump"
    /\ UNCHANGED <<hands, players, trick, lead_suit, trump_suit, card_label, round,
                   deal_next, err, arg, ret>>

\* Game.run without the call of pull_trump
StartRoundNoTrump ==
    /\ pc = "round"
    /\ round <= Len(noc)
    /\ label' = next_player(label)
    /\ trick_label' = next_player(label)
    /\ deck' \in shuffle(deck)
    /\ pc' = "deal"
    /\ deal_next' = 0
    /\ UNCHANGED <<hands, players, trick, lead_suit, trump_suit, card_label, round,
                   err, arg, ret>>

\* Game.run: the loop test, then starting_player and the shuffle
StartRound ==
    /\ pc = "round"
    /\ round <= Len(noc)
    /\ label' = next_player(label)
    /\ trick_label' = next_player(label)
    /\ deck' \in shuffle(deck)
    /\ pc' = "pull_trump"
    /\ UNCHANGED <<hands, players, trick, lead_suit, trump_suit, card_label, round,
                   deal_next, err, arg, ret>>

\* Game.run: the loop ends
GameOver ==
    /\ pc = "round"
    /\ round > Len(noc)
    /\ pc' = "done"
    /\ UNCHANGED <<deck, hands, players, tricks, round, label, deal_next, err, arg, ret>>

\* pull_trump testing the round for odd instead of even
PullTrumpOdd ==
    /\ pc = "pull_trump"
    /\ IF round % 2 = 1
       THEN IF deck = <<>>
            THEN Raise("IndexError") /\ UNCHANGED <<deck, trump_suit, deal_next>>
            ELSE /\ trump_suit' = deck[Len(deck)].suit
                 /\ deck' \in shuffle(deck)
                 /\ pc' = "deal"
                 /\ deal_next' = 0
                 /\ err' = err
       ELSE /\ trump_suit' = None
            /\ pc' = "deal"
            /\ deal_next' = 0
            /\ UNCHANGED <<deck, err>>
    /\ UNCHANGED <<hands, players, trick, lead_suit, trick_label, card_label, round,
                   label, arg, ret>>

\* Game.pull_trump
PullTrump ==
    /\ pc = "pull_trump"
    /\ IF round % 2 = 0
       THEN IF deck = <<>>
            THEN Raise("IndexError") /\ UNCHANGED <<deck, trump_suit, deal_next>>
            ELSE /\ trump_suit' = deck[Len(deck)].suit
                 /\ deck' \in shuffle(deck)
                 /\ pc' = "deal"
                 /\ deal_next' = 0
                 /\ err' = err
       ELSE /\ trump_suit' = None
            /\ pc' = "deal"
            /\ deal_next' = 0
            /\ UNCHANGED <<deck, err>>
    /\ UNCHANGED <<hands, players, trick, lead_suit, trick_label, card_label, round,
                   label, arg, ret>>

\* Game.deal_hands: one pass of the loop over the players
DealHand ==
    /\ pc = "deal"
    /\ deal_next < nop
    /\ LET m == move_cards(deck, hand[deal_next], noc[round], -1) IN
        /\ deck' = m.src
        /\ hand' = [hand EXCEPT ![deal_next] = m.dst]
        /\ IF m.err # "none" THEN Raise(m.err) /\ UNCHANGED deal_next
           ELSE /\ deal_next' = deal_next + 1
                /\ pc' = IF deal_next + 1 = nop THEN "play" ELSE "deal"
                /\ err' = err
    /\ UNCHANGED <<playable, unplayable, leads, trumps, players, tricks, round, label,
                   arg, ret>>

\* Game.play: one pass of the while loop up to the test of the trick's length.
\* The player on turn runs Player.start and moves the chosen card to the trick.
PlayCard ==
    /\ pc = "play"
    /\ \E p \in Players : hand[p] # <<>>
    /\ IF trick_label \notin Players
       THEN Raise("NameError")
            /\ UNCHANGED <<deck, hands, players, tricks>>
       ELSE LET p == trick_label
                pl == playable_cards(hand[p], lead_suit, trump_suit)
            IN
            /\ leads' = [leads EXCEPT ![p] = filter_suit(hand[p], lead_suit)]
            /\ trumps' = [trumps EXCEPT ![p] = filter_suit(hand[p], trump_suit)]
            /\ playable' = [playable EXCEPT ![p] = pl]
            /\ unplayable' = [unplayable EXCEPT ![p] = unplayable_cards(hand[p], pl)]
            /\ IF pl = <<>>
               THEN Raise("IndexError")
                    /\ UNCHANGED <<deck, hand, players, tricks>>
               ELSE LET card == pl[1]
                        m == move_specific_card(hand[p], trick, card)
                    IN
                    /\ played_card' = [played_card EXCEPT ![p] = card]
                    /\ card_label' = [card_label EXCEPT ![card] = p]
                    /\ hand' = [hand EXCEPT ![p] = m.src]
                    /\ trick' = m.dst
                    /\ lead_suit' = IF Len(m.dst) = 1 THEN card.suit ELSE lead_suit
                    /\ IF m.err # "none"
                       THEN Raise(m.err) /\ UNCHANGED trick_label
                       ELSE IF Len(m.dst) = nop
                       THEN pc' = "trick_complete" /\ UNCHANGED <<trick_label, err>>
                       ELSE /\ trick_label' = next_player(trick_label)
                            /\ UNCHANGED <<pc, err>>
                    /\ UNCHANGED <<deck, trump_suit, tricks_won, bids, score>>
    /\ UNCHANGED <<round, label, deal_next, arg, ret>>

\* trick_complete returning one card too few
TrickCompleteShort ==
    /\ pc = "trick_complete"
    /\ \E sorted \in {TrickSort(trick, lead_suit, trump_suit)} :
       LET winner == card_label[sorted[Len(sorted)]]
           m == move_cards(sorted, deck, nop - 1, -1)
       IN
        /\ trick_label' = winner
        /\ tricks_won' = [tricks_won EXCEPT ![winner] = @ + 1]
        /\ lead_suit' = None
        /\ trick' = m.src
        /\ deck' = m.dst
        /\ IF m.err = "none" THEN pc' = "play" /\ err' = err ELSE Raise(m.err)
    /\ UNCHANGED <<hands, played_card, bids, score, trump_suit, card_label, round,
                   label, deal_next, arg, ret>>

\* trick_complete with a leading_player that does not set the trick's label
TrickCompleteKeepTurn ==
    /\ pc = "trick_complete"
    /\ \E sorted \in {TrickSort(trick, lead_suit, trump_suit)} :
       LET winner == card_label[sorted[Len(sorted)]]
           m == move_cards(sorted, deck, nop, -1)
       IN
        /\ tricks_won' = [tricks_won EXCEPT ![winner] = @ + 1]
        /\ lead_suit' = None
        /\ trick' = m.src
        /\ deck' = m.dst
        /\ IF m.err = "none" THEN pc' = "play" /\ err' = err ELSE Raise(m.err)
    /\ UNCHANGED <<hands, played_card, bids, score, trump_suit, trick_label, card_label,
                   round, label, deal_next, arg, ret>>

\* trick_complete without the reset of the lead suit
TrickCompleteKeepLead ==
    /\ pc = "trick_complete"
    /\ \E sorted \in {TrickSort(trick, lead_suit, trump_suit)} :
       LET winner == card_label[sorted[Len(sorted)]]
           m == move_cards(sorted, deck, nop, -1)
       IN
        /\ trick_label' = winner
        /\ tricks_won' = [tricks_won EXCEPT ![winner] = @ + 1]
        /\ trick' = m.src
        /\ deck' = m.dst
        /\ IF m.err = "none" THEN pc' = "play" /\ err' = err ELSE Raise(m.err)
    /\ UNCHANGED <<hands, played_card, bids, score, lead_suit, trump_suit, card_label,
                   round, label, deal_next, arg, ret>>

\* Game.trick_complete with Game.leading_player and Trick.highest_card
TrickComplete ==
    /\ pc = "trick_complete"
    /\ \E sorted \in {TrickSort(trick, lead_suit, trump_suit)} :
       LET winner == card_label[sorted[Len(sorted)]]
           m == move_cards(sorted, deck, nop, -1)
       IN
        /\ trick_label' = winner
        /\ tricks_won' = [tricks_won EXCEPT ![winner] = @ + 1]
        /\ lead_suit' = None
        /\ trick' = m.src
        /\ deck' = m.dst
        /\ IF m.err = "none" THEN pc' = "play" /\ err' = err ELSE Raise(m.err)
    /\ UNCHANGED <<hands, played_card, bids, score, trump_suit, card_label, round,
                   label, deal_next, arg, ret>>

\* the while loop of play with all() for any()
PlayDoneAll ==
    /\ pc = "play"
    /\ \E p \in Players : hand[p] = <<>>
    /\ pc' = "score"
    /\ UNCHANGED <<deck, hands, players, tricks, round, label, deal_next, err, arg, ret>>

\* Game.play: the while loop ends when no hand holds a card
PlayDone ==
    /\ pc = "play"
    /\ \A p \in Players : hand[p] = <<>>
    /\ pc' = "score"
    /\ UNCHANGED <<deck, hands, players, tricks, round, label, deal_next, err, arg, ret>>

\* Score.adjust, called by Game.run
ScoreAdjust ==
    /\ pc = "score"
    /\ score' = [p \in Players |-> adjust(score[p], tricks_won[p], bids[p])]
    /\ pc' = "next_round"
    /\ UNCHANGED <<deck, hands, played_card, tricks_won, bids, tricks, round, label,
                   deal_next, err, arg, ret>>

\* Game.run: self.round += 1
NextRound ==
    /\ pc = "next_round"
    /\ round' = round + 1
    /\ pc' = "round"
    /\ UNCHANGED <<deck, hands, players, tricks, label, deal_next, err, arg, ret>>

Next ==
    \/ DealerDraw
    \/ DealerReturn
    \/ StartRound
    \/ GameOver
    \/ PullTrump
    \/ DealHand
    \/ PlayCard
    \/ TrickComplete
    \/ PlayDone
    \/ ScoreAdjust
    \/ NextRound

Spec ==
    Init /\ [][Next]_vars

\* the program runs on until it ends
FairSpec ==
    Spec /\ WF_vars(Next)

(* ------------------ the operations called on their own ----------------- *)

\* the lists of distinct cards of a length from lo to hi
CardLists(lo, hi) ==
    {s \in UNION {[1 .. n -> Cards] : n \in lo .. hi} :
        \A j, k \in 1 .. Len(s) : j # k => s[j] # s[k]}

SuitOrNone ==
    Suits \cup {None}

\* Trick.highest_card on any trick of 1..nop cards, any lead and trump
InitTrick ==
    /\ pc = "highest_card"
    /\ trick \in CardLists(1, nop)
    /\ lead_suit \in SuitOrNone
    /\ trump_suit \in SuitOrNone
    /\ trick_label = None
    /\ card_label = [c \in Cards |-> None]
    /\ deck = SelectSeq(NewDeck, LAMBDA c : c \notin Range(trick))
    /\ NewHands
    /\ NewPlayers
    /\ NewGame
    /\ NoCall

\* Trick.highest_card: sorts the trick in place and returns its last card
HighestCard ==
    /\ pc = "highest_card"
    /\ trick' = TrickSort(trick, lead_suit, trump_suit)
    /\ ret' = trick'[Len(trick')]
    /\ pc' = "returned"
    /\ UNCHANGED <<deck, hands, players, lead_suit, trump_suit, trick_label, card_label,
                   round, label, deal_next, err, arg>>

SpecTrick ==
    InitTrick /\ [][HighestCard]_vars

\* Hand.playable_cards on any hand of player 0 of up to MaxHand cards
InitHand ==
    /\ pc = "playable_cards"
    /\ \E h \in CardLists(0, MaxHand) :
        /\ hand = [p \in Players |-> IF p = 0 THEN h ELSE <<>>]
        /\ deck = SelectSeq(NewDeck, LAMBDA c : c \notin Range(h))
    /\ playable = [p \in Players |-> <<>>]
    /\ unplayable = [p \in Players |-> {}]
    /\ leads = [p \in Players |-> <<>>]
    /\ trumps = [p \in Players |-> <<>>]
    /\ trick = <<>>
    /\ lead_suit \in SuitOrNone
    /\ trump_suit \in SuitOrNone
    /\ trick_label = 0
    /\ card_label = [c \in Cards |-> None]
    /\ NewPlayers
    /\ NewGame
    /\ NoCall

\* Hand.playable_cards followed by Hand.unplayable_cards, as Player.start calls them
PlayableCards ==
    /\ pc = "playable_cards"
    /\ leads' = [leads EXCEPT ![0] = filter_suit(hand[0], lead_suit)]
    /\ trumps' = [trumps EXCEPT ![0] = filter_suit(hand[0], trump_suit)]
    /\ playable' = [playable EXCEPT ![0] = playable_cards(hand[0], lead_suit, trump_suit)]
    /\ unplayable' = [unplayable EXCEPT ![0] = unplayable_cards(hand[0], playable'[0])]
    /\ pc' = "returned"
    /\ UNCHANGED <<deck, hand, players, tricks, round, label, deal_next, err, arg, ret>>

SpecHand ==
    InitHand /\ [][PlayableCards]_vars

\* Deck.move_cards and Deck.move_specific_card from the deck to the trick, for any
\* deck of up to MaxSrc cards, a trick that is empty or holds one other card, and
\* any count up to one more than MaxSrc or any card
InitMove ==
    /\ deck \in CardLists(0, MaxSrc)
    /\ trick \in {<<>>} \cup {<<c>> : c \in {NewDeck[1], NewDeck[Len(NewDeck)]} \ Range(deck)}
    /\ \/ /\ pc = "move_cards"
          /\ \E n \in 0 .. (MaxSrc + 1) : arg = [op |-> "move_cards", num |-> n, card |-> NoCard]
          /\ err = "none"
       \/ /\ pc = "move_specific_card"
          /\ \E c \in Cards : arg = [op |-> "move_specific_card", num |-> 1, card |-> c]
          /\ err = "none"
    /\ ret = NoCard
    /\ lead_suit = None
    /\ trump_suit = None
    /\ trick_label = None
    /\ card_label = [c \in Cards |-> None]
    /\ NewHands
    /\ NewPlayers
    /\ NewGame

\* deck.move_cards(trick, num)
MoveCards ==
    /\ pc = "move_cards"
    /\ LET m == move_cards(deck, trick, arg.num, -1) IN
        /\ deck' = m.src
        /\ trick' = m.dst
        /\ err' = m.err
    /\ pc' = "returned"
    /\ UNCHANGED <<hands, players, lead_suit, trump_suit, trick_label, card_label,
                   round, label, deal_next, arg, ret>>

\* deck.move_specific_card(trick, card)
MoveSpecificCard ==
    /\ pc = "move_specific_card"
    /\ LET m == move_specific_card(deck, trick, arg.card) IN
        /\ deck' = m.src
        /\ trick' = m.dst
        /\ err' = m.err
    /\ pc' = "returned"
    /\ UNCHANGED <<hands, players, lead_suit, trump_suit, trick_label, card_label,
                   round, label, deal_next, arg, ret>>

NextMove ==
    \/ MoveCards
    \/ MoveSpecificCard

SpecMove ==
    InitMove /\ [][NextMove]_vars

\* Score.adjust on any tricks_won and bids up to MaxTricks of players 0 and 1
InitScore ==
    /\ pc = "score"
    /\ tricks_won \in {f \in [Players -> 0 .. MaxTricks] : \A p \in Players : p > 1 => f[p] = 0}
    /\ bids \in {f \in [Players -> 0 .. MaxTricks] : \A p \in Players : p > 1 => f[p] = 0}
    /\ \E s \in {0, 7} : score = [p \in Players |-> s]
    /\ played_card = [p \in Players |-> NoCard]
    /\ deck = NewDeck
    /\ NewHands
    /\ NewTrick
    /\ NewGame
    /\ NoCall

NextScore ==
    \/ ScoreAdjust
    \/ NextRound

SpecScore ==
    InitScore /\ [][NextScore]_vars

(* ------------------------------ properties ----------------------------- *)

AllCards ==
    deck \o hand[0] \o hand[1] \o hand[2] \o hand[3] \o trick

SumTricks ==
    tricks_won[0] + tricks_won[1] + tricks_won[2] + tricks_won[3]

\* noc[1] + ... + noc[r]
RECURSIVE SumNoc(_)
SumNoc(r) ==
    IF r <= 0 THEN 0 ELSE noc[r] + SumNoc(r - 1)

Reversed(s) ==
    [k \in 1 .. Len(s) |-> s[Len(s) + 1 - k]]

\* the greatest card of a non-empty set under the Card order
MaxCard(S) ==
    CHOOSE c \in S : \A d \in S : d # c => CardLt(d, c)

\* the change of a score the rule prescribes, written without abs()
ScoreDelta(won, bid) ==
    IF won = bid THEN won * 2 + 5
    ELSE IF won > bid THEN 0 - (won - bid) * 2
    ELSE 0 - (bid - won) * 2

\* C1: in every state of a game the deck, the four hands and the trick together
\* hold every card of the full deck exactly once.
CardConservation ==
    /\ Len(AllCards) = Cardinality(Cards)
    /\ Range(AllCards) = Cards

\* C1 witness: a turn of play with cards in the deck, in a hand and in the trick
CardsInEveryContainer ==
    /\ pc = "play"
    /\ round > 1
    /\ deck # <<>>
    /\ trick # <<>>
    /\ \E p \in Players : hand[p] # <<>>

\* C2: highest_card returns the highest trump card of the trick if it holds one,
\* else the highest card of the lead suit if it holds one, else the highest card.
HighestCardRule ==
    pc = "returned" =>
        LET T == {c \in Range(trick) : c.suit = trump_suit}
            L == {c \in Range(trick) : c.suit = lead_suit}
        IN  /\ ret = MaxCard(IF T # {} THEN T ELSE IF L # {} THEN L ELSE Range(trick))
            /\ T # {} => ret.suit = trump_suit

\* C2 witness: Hearts trump, Clubs led, the trick holds the two lowest clubs and
\* the lowest heart, and the heart is returned
LowTrumpBeatsHighLead ==
    /\ pc = "returned"
    /\ trump_suit = 2
    /\ lead_suit = 0
    /\ Range(trick) = {[suit |-> 0, rank |-> 2], [suit |-> 0, rank |-> 3],
                       [suit |-> 2, rank |-> 2]}
    /\ ret = [suit |-> 2, rank |-> 2]

\* C3: playable_cards returns the lead cards and the trump cards of the hand when
\* it holds both and the suits differ, the lead cards alone when it holds some,
\* and the whole hand when it holds none; no card is returned twice.
PlayableRule ==
    pc = "returned" =>
        LET H == Range(hand[0])
            L == {c \in H : c.suit = lead_suit}
            T == {c \in H : c.suit = trump_suit}
        IN  /\ Range(playable[0]) =
                  IF L # {} /\ T # {} /\ lead_suit # trump_suit THEN L \cup T
                  ELSE IF L # {} THEN L
                  ELSE H
            /\ Len(playable[0]) = Cardinality(Range(playable[0]))
            /\ L = {} => playable[0] = hand[0]

\* C3 witness: a hand with a lead card, a trump card and a card of a third suit
LeadTrumpAndOther ==
    /\ pc = "returned"
    /\ lead_suit # None
    /\ trump_suit # None
    /\ lead_suit # trump_suit
    /\ \E c \in Range(hand[0]) : c.suit = lead_suit
    /\ \E c \in Range(hand[0]) : c.suit = trump_suit
    /\ unplayable[0] # {}
    /\ Len(playable[0]) = 2

\* C4, as claimed: in round 1 the player credited with the trick played the
\* highest of the four cards.
Round1HighestCardWins ==
    (round = 1 /\ pc = "score") =>
        \A p \in Players : tricks_won[p] = 1 =>
            \A q \in Players \ {p} : CardLt(played_card[q], played_card[p])

\* C4, amended: in round 1 exactly one player is credited, and that player played
\* the highest card of the suit led by the round's first player.
Round1HighestLeadWins ==
    (round = 1 /\ pc = "score") =>
        \E p \in Players :
            /\ tricks_won[p] = 1
            /\ \A q \in Players \ {p} : tricks_won[q] = 0
            /\ played_card[p].suit = played_card[label].suit
            /\ \A q \in Players \ {p} :
                played_card[q].suit = played_card[label].suit
                    => CardLt(played_card[q], played_card[p])

\* C4 witness: round 1 is won with a card that is not the highest of the four
Round1WonBelowHighest ==
    /\ round = 1
    /\ pc = "score"
    /\ \E p, q \in Players :
        /\ tricks_won[p] = 1
        /\ played_card[q].suit # played_card[label].suit
        /\ CardLt(played_card[p], played_card[q])

\* C5, as claimed: when the play of a round starts every player's tricks_won is
\* 0, and when the round is scored the four values sum to the round's tricks.
TricksWonResets ==
    /\ (pc = "play" /\ trick = <<>> /\ \A p \in Players : Len(hand[p]) = noc[round])
           => \A p \in Players : tricks_won[p] = 0
    /\ pc = "score" => SumTricks = noc[round]

\* C6: the score step adds tricks_won*2 + 5 on a met bid and subtracts twice the
\* difference otherwise, for each of the four players in one step, changes no
\* tricks_won and no bids, and no other step changes a score.
ScoreStepRule ==
    /\ [][pc = "score" =>
            /\ \A p \in Players :
                score'[p] = score[p] + ScoreDelta(tricks_won[p], bids[p])
            /\ tricks_won' = tricks_won
            /\ bids' = bids
            /\ round' = round
            /\ pc' = "next_round"]_vars
    /\ [][pc # "score" => score' = score]_vars

\* C6 witness: bids 3, won 3 scored +11 and bids 2, won 5 scored -6
ScoreExamples ==
    /\ pc = "next_round"
    /\ tricks_won[0] = 3 /\ bids[0] = 3 /\ score[0] = 11
    /\ tricks_won[1] = 5 /\ bids[1] = 2 /\ score[1] = 0 - 6

\* C7: when a round has been played out the hands and the trick are empty and
\* the deck holds every card.
RoundReturnsAllCards ==
    (pc \in {"score", "next_round"} \/ (pc = "round" /\ round > 1)) =>
        /\ \A p \in Players : hand[p] = <<>>
        /\ trick = <<>>
        /\ Len(deck) = Cardinality(Cards)
        /\ Range(deck) = Cards

\* C7 witness: the end of a round that dealt the whole deck
FullDealPlayedOut ==
    /\ pc = "score"
    /\ noc[round] * nop = Cardinality(Cards)
    /\ Len(deck) = Cardinality(Cards)

\* C8, as claimed: the cards move_cards moves keep, in the destination, the
\* relative order they had in the source.
MoveCardsKeepsOrder ==
    [][(pc = "move_cards" /\ arg.num >= 2 /\ arg.num <= Len(deck)) =>
          \A j, k \in 1 .. Len(deck) :
              (j < k /\ deck[j] \notin Range(deck') /\ deck[k] \notin Range(deck'))
                  => IndexOf(trick', deck[j]) < IndexOf(trick', deck[k])]_vars

\* C8, amended: move_cards with a count within the source removes its last count
\* cards and appends them to the destination in reverse order.
MoveCardsReverses ==
    [][(pc = "move_cards" /\ arg.num <= Len(deck)) =>
          /\ err' = "none"
          /\ deck' = SubSeq(deck, 1, Len(deck) - arg.num)
          /\ trick' = trick \o
                 Reversed(SubSeq(deck, Len(deck) - arg.num + 1, Len(deck)))]_vars

\* C8 witness: two or more cards were moved behind the one the destination held
MovedSeveral ==
    /\ pc = "returned"
    /\ arg.op = "move_cards"
    /\ arg.num >= 2
    /\ err = "none"
    /\ Len(trick) = arg.num + 1

\* C9, as claimed: a count above the source's length, or a card the source does
\* not hold, ends in an error and leaves both containers as they were.
ContractViolationAborts ==
    [][((pc = "move_cards" /\ arg.num > Len(deck))
            \/ (pc = "move_specific_card" /\ arg.card \notin Range(deck))) =>
          /\ err' # "none"
          /\ deck' = deck
          /\ trick' = trick]_vars

\* C10: the game ends, with the round counter one past the last round; no
\* exception ends it, and when round r is scored the tricks won so far number
\* noc[1] + ... + noc[r], so round r resolved exactly noc[r] tricks and left
\* no card in a hand.
GameTerminates ==
    /\ <>(pc = "done")
    /\ [](pc = "done" => round = Len(noc) + 1)
    /\ [](round \in 1 .. (Len(noc) + 1))
    /\ [](pc # "error")
    /\ [](pc = "score" =>
            /\ SumTricks = SumNoc(round)
            /\ \A p \in Players : hand[p] = <<>>)

\* C10 witness: the game is over after the last round
GameIsOver ==
    /\ pc = "done"
    /\ round = Len(noc) + 1
    /\ SumTricks = SumNoc(Len(noc))

\* the cards a hand is dealt in round r: 1 up to NumRanks, then NumRanks down to 1
CardsPerHand(r) ==
    IF r <= NumRanks THEN r ELSE 2 * NumRanks + 1 - r

\* the play of the round has not begun: no card is in the trick and the tricks
\* won so far are those of the rounds before
NothingPlayedYet ==
    /\ pc = "play"
    /\ trick = <<>>
    /\ SumTricks = SumNoc(round - 1)

\* C11: noc is 1..NumRanks followed by NumRanks..1 and sums to NumRanks*(NumRanks+1)
\* (182 for 13 ranks); while round r is dealt the hands served hold noc[r] cards
\* each, the others none, and the deck the rest; right after the deal every hand
\* holds noc[r] cards and the deck the full deck less 4*noc[r], which is not
\* negative; the deal never ends in an error.
DealWithinDeck ==
    /\ Len(noc) = 2 * NumRanks
    /\ \A r \in 1 .. Len(noc) : noc[r] = CardsPerHand(r)
    /\ SumNoc(Len(noc)) = NumRanks * (NumRanks + 1)
    /\ pc = "deal" =>
        /\ \A p \in Players :
            Len(hand[p]) = IF p < deal_next THEN CardsPerHand(round) ELSE 0
        /\ Len(deck) = Cardinality(Cards) - deal_next * CardsPerHand(round)
    /\ NothingPlayedYet =>
        /\ \A p \in Players : Len(hand[p]) = CardsPerHand(round)
        /\ Len(deck) = Cardinality(Cards) - nop * CardsPerHand(round)
        /\ Cardinality(Cards) - nop * CardsPerHand(round) >= 0
    /\ pc # "error"
    /\ err = "none"

\* C11 witness: a round that deals the whole deck has just been dealt
WholeDeckDealt ==
    /\ NothingPlayedYet
    /\ deck = <<>>
    /\ \A p \in Players : Len(hand[p]) = NumRanks

\* the turns and trick resolutions of a round
InPlay ==
    pc \in {"play", "trick_complete"}

\* C12: while a round is played the trump suit is one of the four suits if the
\* round is even and undefined if it is odd, and no turn, no trick resolution and
\* not the end of the play changes it.
TrumpByParity ==
    /\ [](InPlay => (trump_suit \in Suits <=> round % 2 = 0))
    /\ [](InPlay => (trump_suit = None <=> round % 2 = 1))
    /\ [][InPlay => trump_suit' = trump_suit]_vars

\* C12 witness: a trick after the first of an even round is resolved under a trump
LaterTrickUnderTrump ==
    /\ pc = "trick_complete"
    /\ round % 2 = 0
    /\ trump_suit \in Suits
    /\ SumTricks > SumNoc(round - 1)

\* the changes of phase that belong to neither order of dealing and trump
OtherPhaseSteps ==
    {<<"dealer", "dealer_return">>, <<"dealer_return", "round">>,
     <<"play", "trick_complete">>, <<"trick_complete", "play">>, <<"play", "score">>,
     <<"score", "next_round">>, <<"next_round", "round">>, <<"round", "done">>}

AllHandsEmpty ==
    \A p \in Players : hand[p] = <<>>

HighestOfTrick ==
    TrickSort(trick, lead_suit, trump_suit)[Len(trick)]

\* C14: when a trick of four cards is resolved, the player whose played card is
\* the one highest_card returns gains exactly one trick, no other tricks_won
\* changes, and that player is on turn next; the first card of a trick is played
\* by the player on turn, out of that player's hand.
TrickCreditsWinner ==
    /\ [][pc = "trick_complete" =>
            /\ Len(trick) = nop
            /\ \E w \in Players :
                /\ played_card[w] = HighestOfTrick
                /\ tricks_won' = [tricks_won EXCEPT ![w] = tricks_won[w] + 1]
                /\ trick_label' = w
            /\ pc' = "play"]_vars
    /\ [][(pc = "play" /\ trick = <<>> /\ trick' # <<>>) =>
            /\ trick' = <<played_card'[trick_label]>>
            /\ trick'[1] \in Range(hand[trick_label])
            /\ trick'[1] \notin Range(hand'[trick_label])]_vars

\* C14 witness: a later trick of a round has its first card, played by a player
\* who has won a trick, and the turn has passed on
WinnerLedNextTrick ==
    /\ pc = "play"
    /\ Len(trick) = 1
    /\ SumTricks > SumNoc(round - 1)
    /\ tricks_won[card_label[trick[1]]] > 0
    /\ trick_label = next_player(card_label[trick[1]])

\* C15: next_player of a label 0..3 is (label + 1) mod 4; starting_player moves
\* the game's label and the trick's label to it; a card that does not complete
\* the trick passes the turn to it; so the cards of a trick were played by
\* s, s+1, s+2, s+3 (mod 4) from its first player s.
ClockwiseTurns ==
    /\ [](\A l \in Players : next_player(l) = (l + 1) % nop)
    /\ [][(pc = "round" /\ pc' = "pull_trump") =>
            /\ label' = (label + 1) % nop
            /\ trick_label' = (label + 1) % nop]_vars
    /\ [][(pc = "play" /\ pc' = "play" /\ Len(trick') = Len(trick) + 1) =>
            trick_label' = (trick_label + 1) % nop]_vars
    /\ [](InPlay =>
            \A j \in 1 .. Len(trick) :
                card_label[trick[j]] = (card_label[trick[1]] + j - 1) % nop)

\* C15 witness: a trick begun by player 2 is complete; the turn went 2, 3, 0, 1
TurnWrappedAround ==
    /\ pc = "trick_complete"
    /\ card_label[trick[1]] = 2
    /\ card_label[trick[2]] = 3
    /\ card_label[trick[3]] = 0
    /\ card_label[trick[4]] = 1

\* C16: at every turn of play and at every trick resolution the lead suit is
\* undefined exactly when the trick is empty, and otherwise it is the suit of the
\* first card of the trick; the second, third and fourth card do not change it,
\* and the resolution of the trick clears it.
LeadSuitLifecycle ==
    /\ [](InPlay => (lead_suit = None <=> trick = <<>>))
    /\ [](InPlay /\ trick # <<>> => lead_suit = trick[1].suit)
    /\ [][(pc = "play" /\ trick # <<>>) => lead_suit' = lead_suit]_vars
    /\ [][pc = "trick_complete" => lead_suit' = None /\ trick' = <<>>]_vars

\* C16 witness: the trick holds a second card of another suit than the first,
\* and the lead suit is still the suit of the first
LeadSuitKept ==
    /\ pc = "play"
    /\ Len(trick) >= 2
    /\ trick[2].suit # trick[1].suit
    /\ lead_suit = trick[1].suit
    /\ SumTricks > SumNoc(round - 1)

\* the cards of a hand the rule allows: of the lead suit or the trump suit if the
\* hand holds both, of the lead suit if it holds some, else any card
LegalCards(H, lead, trump) ==
    LET L == {c \in H : c.suit = lead}
        T == {c \in H : c.suit = trump}
    IN  IF L # {} /\ T # {} /\ lead # trump THEN L \cup T
        ELSE IF L # {} THEN L
        ELSE H

\* C17: every card that a turn adds to the trick comes out of the hand of the
\* player on turn and is one of the cards the rule allows for that hand, lead
\* suit and trump suit as they were before the turn; a player who held a card of
\* the lead suit played a card of the lead suit or of the trump suit.
PlaysAreLegal ==
    [][(pc = "play" /\ Len(trick') = Len(trick) + 1) =>
          LET H == Range(hand[trick_label])
              c == trick'[Len(trick')]
          IN  /\ c \in H
              /\ c \in LegalCards(H, lead_suit, trump_suit)
              /\ (\E d \in H : d.suit = lead_suit) => c.suit \in {lead_suit, trump_suit}
              /\ Range(hand'[trick_label]) = H \ {c}
              /\ SubSeq(trick', 1, Len(trick)) = trick]_vars

\* C17 witness: a player who held a card of the lead suit and a card of a suit
\* that is neither lead nor trump has followed suit
FollowedSuit ==
    /\ InPlay
    /\ Len(trick) >= 2
    /\ \E p \in Players :
        /\ card_label[trick[Len(trick)]] = p
        /\ trick[Len(trick)].suit = lead_suit
        /\ \E d \in Range(hand[p]) : d.suit \notin {lead_suit, trump_suit}

\* the players whose hand holds a card
HandsServed ==
    {p \in Players : hand[p] # <<>>}

\* C18, as claimed: while a round is dealt the hands that have their cards are
\* those of the player after the dealer (the game's label) and of the players
\* that follow clockwise, as many as were served.
DealStartsAfterDealer ==
    pc = "deal" =>
        HandsServed = {(label + j) % nop : j \in 0 .. (Cardinality(HandsServed) - 1)}

\* C19: at every turn of play the trick's label names a player who holds a card
\* and who played none of the cards in the trick; the cards that player may play
\* are not none; so no turn raises, and a trick that is resolved holds four cards,
\* one played by each of the four players.
PlayerOnTurnCanPlay ==
    /\ (pc = "play" /\ ~AllHandsEmpty) =>
        /\ trick_label \in Players
        /\ hand[trick_label] # <<>>
        /\ \A c \in Range(trick) : card_label[c] # trick_label
        /\ playable_cards(hand[trick_label], lead_suit, trump_suit) # <<>>
        /\ LegalCards(Range(hand[trick_label]), lead_suit, trump_suit) # {}
    /\ pc = "trick_complete" =>
        /\ Len(trick) = nop
        /\ Cardinality(Range(trick)) = nop
        /\ \A p \in Players : \E c \in Range(trick) : card_label[c] = p /\ played_card[p] = c
    /\ pc # "error"

\* C19 witness: the fourth player of a trick is on turn, holds two cards or more
\* and may not play all of them
FourthPlayerConstrained ==
    /\ pc = "play"
    /\ Len(trick) = nop - 1
    /\ Len(hand[trick_label]) >= 2
    /\ unplayable_cards(hand[trick_label],
            playable_cards(hand[trick_label], lead_suit, trump_suit)) # {}

\* the rounds that have begun: starting_player has run for them
RoundsStarted ==
    IF pc \in {"dealer", "dealer_return", "round", "done"} THEN round - 1 ELSE round

\* the game's label less one for every round begun, mod 4
DealerIndex ==
    (label + nop * Len(noc) - RoundsStarted) % nop

\* C20: the dealer index is the position of the highest of the four cards drawn
\* at construction; from then on the game's label is a player and the label less
\* the number of rounds begun (mod 4) never changes, so it stays the dealer index
\* d; the player on turn for the first card of round r is (d + r) mod 4.
StartRotates ==
    /\ [][pc = "dealer_return" =>
            /\ Len(trick) = nop
            /\ trick[label' + 1] = MaxCard(Range(trick))
            /\ round' = 1]_vars
    /\ [](pc \notin {"dealer", "dealer_return"} => label \in Players)
    /\ [][pc \notin {"dealer", "dealer_return"} => DealerIndex' = DealerIndex]_vars
    /\ [](NothingPlayedYet => trick_label = (DealerIndex + round) % nop)

\* C20 witness: with dealer index 2 the first turn of round 3 is player 1's
ThirdRoundStartsAtOne ==
    /\ NothingPlayedYet
    /\ round = 3
    /\ DealerIndex = 2
    /\ trick_label = 1

=============================================================================
